---- MODULE Spec2Model ----
(***************************************************************************)
(* Model of the Shuttlers page object (ShuttlerSimplePage) and of the test *)
(* 'Shuttler Booking' that drives it: goto -> login -> searchRoute ->      *)
(* bookTrip.  Two tests (Sessions) run side by side, each on the page its  *)
(* runner hands it.  The browser library's calls (locator resolution,      *)
(* actionability wait, expect polling) are modelled by what each call in   *)
(* the page object does to the page it is given; time is counted in ticks. *)
(***************************************************************************)
EXTENDS Naturals, Integers, Sequences, FiniteSets, TLC

(* ------------------------------ bounds --------------------------------- *)

\* length of one tick of model time, in milliseconds
TickMs == 10000
\* timeout, in ticks, of every call the page object gives no timeout to
ActionTimeoutTicks == 2
\* largest render latency, in ticks, of the target application
MaxDelay == 4

(* ----------------------- constants of the source ----------------------- *)

\* expect(this.page).toHaveURL(..., { timeout: 30000 })
LoginGateTimeoutMs == 30000

LoginGateTicks == LoginGateTimeoutMs \div TickMs

Sessions == {1, 2}
Pages == {1, 2}

\* tests/testData.js: user, plus a second account and a wrong password
user == [email |-> "jamesswagz24@gmail.com", password |-> "TestPassword"]
Credentials ==
  { user,
    [email |-> "second@example.com", password |-> "SecondPassword"],
    [email |-> "jamesswagz24@gmail.com", password |-> "WrongPassword"] }
\* the accounts the application accepts
Accounts ==
  { user, [email |-> "second@example.com", password |-> "SecondPassword"] }

\* tests/testData.js: route
route ==
  [ pickup |-> "festac",
    pickupExact |-> "Festac Town, Lagos, Nigeria",
    destination |-> "Eko",
    destinationExact |-> "Eko Hotel Roundabout, Lagos, Nigeria",
    date |-> "20",
    tripId |-> "FST20006:00 AM" ]

LoginUrl == "https://my.shuttlers.co/auth/login"
DashboardUrl == "https://my.shuttlers.co/dashboard"

(* --------------------------- the flow chain ---------------------------- *)

\* shuttler.goto().then(login).then(searchRoute).then(bookTrip)
Chain == <<"goto", "login", "searchRoute", "bookTrip">>
FlowNames == {"goto", "login", "searchRoute", "bookTrip"}

NoDesc == [kind |-> "none", a |-> "", b |-> "", exact |-> FALSE, first |-> FALSE]
ByRole(role, name) ==
  [kind |-> "role", a |-> role, b |-> name, exact |-> FALSE, first |-> FALSE]
ByText(text, exact) ==
  [kind |-> "text", a |-> text, b |-> "", exact |-> exact, first |-> FALSE]
ByCss(attr, value) ==
  [kind |-> "css", a |-> attr, b |-> value, exact |-> TRUE, first |-> FALSE]
ByTestId(value) ==
  [kind |-> "testid", a |-> value, b |-> "", exact |-> TRUE, first |-> FALSE]
\* page.locator(tag).getByRole(role)
TagThenRole(tag, role) ==
  [kind |-> "tagrole", a |-> tag, b |-> role, exact |-> FALSE, first |-> FALSE]
\* page.locator(tag).filter({ hasText }).first()
TagHasTextFirst(tag, text) ==
  [kind |-> "tagtext", a |-> tag, b |-> text, exact |-> FALSE, first |-> TRUE]

Stmt(op, desc, payload, force, timeout) ==
  [op |-> op, desc |-> desc, payload |-> payload, force |-> force,
   timeout |-> timeout]

GotoStmts ==
  << Stmt("goto", NoDesc, LoginUrl, FALSE, ActionTimeoutTicks) >>

\* the locator of the login button, by its data-test attribute
LoginButtonByText == ByText("Login", TRUE)
LoginButtonDescriptor == ByCss("data-test", "login-button")

LoginStmts(email, password) ==
  << Stmt("fill", ByRole("textbox", "Email Address"), email, FALSE,
          ActionTimeoutTicks),
     Stmt("fill", ByRole("textbox", "Password Login with OTP"), password,
          FALSE, ActionTimeoutTicks),
     Stmt("click", LoginButtonDescriptor, "", FALSE, ActionTimeoutTicks),
     Stmt("expectURL", NoDesc, "dashboard", FALSE, LoginGateTicks) >>

\* the find-trips click moved before the date is picked
SearchRouteFindFirst(r) ==
  << Stmt("fill", ByRole("textbox", "Pick up location"), r.pickup, FALSE,
          ActionTimeoutTicks),
     Stmt("click", ByText(r.pickupExact, TRUE), "", FALSE, ActionTimeoutTicks),
     Stmt("fill", ByRole("textbox", "Search destination"), r.destination,
          FALSE, ActionTimeoutTicks),
     Stmt("click", ByText(r.destinationExact, TRUE), "", FALSE,
          ActionTimeoutTicks),
     Stmt("click", TagThenRole("i", "img"), "", FALSE, ActionTimeoutTicks),
     Stmt("click", ByTestId("find-trips-btn"), "", FALSE, ActionTimeoutTicks),
     Stmt("click", ByText(r.date, TRUE), "", FALSE, ActionTimeoutTicks) >>

SearchRouteStmts(r) ==
  << Stmt("fill", ByRole("textbox", "Pick up location"), r.pickup, FALSE,
          ActionTimeoutTicks),
     Stmt("click", ByText(r.pickupExact, TRUE), "", FALSE, ActionTimeoutTicks),
     Stmt("fill", ByRole("textbox", "Search destination"), r.destination,
          FALSE, ActionTimeoutTicks),
     Stmt("click", ByText(r.destinationExact, TRUE), "", FALSE,
          ActionTimeoutTicks),
     Stmt("click", TagThenRole("i", "img"), "", FALSE, ActionTimeoutTicks),
     Stmt("click", ByText(r.date, TRUE), "", FALSE, ActionTimeoutTicks),
     Stmt("click", ByTestId("find-trips-btn"), "", FALSE, ActionTimeoutTicks) >>

\* the options of the two clicks of bookTrip: none, so no force
BookTripClickForced == TRUE
BookTripClickForce == FALSE

BookTripStmts(tripId) ==
  << Stmt("click", ByText(tripId, FALSE), "", BookTripClickForce,
          ActionTimeoutTicks),
     Stmt("click", ByRole("button", "Book Trip"), "", BookTripClickForce,
          ActionTimeoutTicks),
     Stmt("expectVisible", TagHasTextFirst("label", "pay with"), "", FALSE,
          ActionTimeoutTicks) >>

\* the statements of a flow as the test calls it with credentials c
Stmts(f, c) ==
  CASE f = "goto" -> GotoStmts
    [] f = "login" -> LoginStmts(c.email, c.password)
    [] f = "searchRoute" -> SearchRouteStmts(route)
    [] f = "bookTrip" -> BookTripStmts(route.tripId)

IsGate(st) == st.op \in {"expectURL", "expectVisible"}

(* --------------------------- the document ------------------------------ *)

Uis == {"blank", "login", "dashboard", "pickupList", "destList", "calendar",
        "trips", "trip", "payment", "closed"}
DashUis == {"dashboard", "pickupList", "destList", "calendar"}

El(id, ord, uis, role, name, text, tag, parent, dataTest, testid) ==
  [id |-> id, ord |-> ord, uis |-> uis, role |-> role, name |-> name,
   text |-> text, tag |-> tag, parent |-> parent, dataTest |-> dataTest,
   testid |-> testid]

\* the elements of the application
BaseElements ==
  { El("emailBox", 1, {"login"}, "textbox", "Email Address", "", "input", "form", "", ""),
    El("passwordBox", 2, {"login"}, "textbox", "Password Login with OTP", "", "input", "form", "", ""),
    El("loginButton", 3, {"login"}, "button", "Login", "Login", "button", "form", "login-button", ""),
    El("pickupBox", 1, DashUis, "textbox", "Pick up location", "", "input", "form", "", ""),
    El("pickupOption", 2, {"pickupList"}, "option", "", route.pickupExact, "li", "ul", "", ""),
    El("destBox", 3, DashUis, "textbox", "Search destination", "", "input", "form", "", ""),
    El("destOption", 4, {"destList"}, "option", "", route.destinationExact, "li", "ul", "", ""),
    El("calendarIcon", 5, DashUis, "img", "", "", "svg", "i", "", ""),
    El("dayCell", 6, {"calendar"}, "cell", "", route.date, "span", "div", "", ""),
    El("findTripsBtn", 7, DashUis, "button", "Find Trips", "Find Trips", "button", "form", "", "find-trips-btn"),
    El("tripRow", 1, {"trips"}, "row", "", route.tripId, "div", "div", "", ""),
    El("bookTripButton", 1, {"trip"}, "button", "Book Trip", "Book Trip", "button", "div", "", ""),
    El("payWithCard", 1, {"payment"}, "", "", "Pay with card", "label", "div", "", ""),
    El("payWithWallet", 2, {"payment"}, "", "", "Pay with wallet", "label", "div", "", "") }

\* a link in the page header that also reads "Login"
LoginLink ==
  El("loginLink", 4, {"login"}, "link", "Login", "Login", "a", "nav", "", "")

\* a day of the next month that the date picker shows with the same number
OtherMonthDay ==
  El("otherMonthDay", 8, {"calendar"}, "cell", "", route.date, "span", "div", "", "")

ElementsWithLink == BaseElements \cup {LoginLink, OtherMonthDay}

\* the elements of the application; dup adds the second "Login" and the
\* second day of the same number
Elements(dup) == IF dup THEN ElementsWithLink ELSE BaseElements

\* case-insensitive containment, for the texts the application shows
Contains(text, needle) ==
  \/ text = needle
  \/ <<text, needle>> \in { <<"Pay with card", "pay with">>,
                            <<"Pay with wallet", "pay with">> }

Matches(el, d) ==
  CASE d.kind = "role" -> el.role = d.a /\ el.name = d.b
    [] d.kind = "text" -> IF d.exact THEN el.text = d.a
                          ELSE Contains(el.text, d.a)
    [] d.kind = "css" -> d.a = "data-test" /\ el.dataTest = d.b
    [] d.kind = "testid" -> el.testid = d.a
    [] d.kind = "tagrole" -> el.parent = d.a /\ el.role = d.b
    [] d.kind = "tagtext" -> el.tag = d.a /\ Contains(el.text, d.b)
    [] OTHER -> FALSE

NoFields ==
  [email |-> "", password |-> "", pickup |-> "", pickupSel |-> "",
   destination |-> "", destinationSel |-> "", date |-> ""]

BlankDoc ==
  [ui |-> "blank", from |-> "blank", age |-> MaxDelay, fields |-> NoFields,
   log |-> << >>]

UrlOf(ui) ==
  CASE ui \in {"blank", "closed"} -> "about:blank"
    [] ui = "login" -> LoginUrl
    [] ui \in DashUis -> DashboardUrl
    [] ui = "trips" -> "https://my.shuttlers.co/dashboard/trips"
    [] ui = "trip" -> "https://my.shuttlers.co/dashboard/trips/FST200"
    [] ui = "payment" -> "https://my.shuttlers.co/dashboard/checkout"

\* /.*dashboard.*/
MatchesDashboard(url) ==
  url \in { UrlOf(u) : u \in DashUis \cup {"trips", "trip", "payment"} }

(* ------------------------------- state --------------------------------- *)

VARIABLES
  thisPage,   \* thisPage[s]: the page field of the page object of test s
  creds,      \* creds[s]: the credentials test s logs in with
  app,        \* the target application: [dup, hidden, delay]
  doc,        \* doc[p]: the document of page p
  flowState,  \* flowState[s][f]: lifecycle of flow f in test s
  inflight,   \* inflight[s]: the calls of test s that have not settled
  attempted,  \* attempted[s]: the statements <<i, k>> ever started
  fulfilled,  \* fulfilled[s]: the statements whose call fulfilled
  rejected,   \* rejected[s]: the statements whose call rejected, with cause
  failure,    \* failure[s]: what the chain of test s rejected with
  returned,   \* returned[s][f]: the object flow f resolved with (0: none)
  observed,   \* observed[s]: the flows whose post-condition a poll saw hold
  status      \* status[s]: "running", "passed" or "failed"

vars == <<thisPage, creds, app, doc, flowState, inflight, attempted,
          fulfilled, rejected, failure, returned, observed, status>>

NoFailure == [flow |-> "none", stepIndex |-> 0, kind |-> "none", reason |-> ""]

\* the page the runner hands to test s: one page per test
Fixture(s) == s

\* the page a flow of test s acts on: this.page
SharedPage(s) == 1
PageOf(s) == thisPage[s]

\* return this
ReturnFresh(s) == s + 2
ReturnValue(s) == s

Init ==
  /\ thisPage = [s \in Sessions |-> Fixture(s)]
  /\ creds \in [Sessions -> Credentials]
  /\ app \in [dup : BOOLEAN,
              hidden : {"none", "loginButton", "bookTripButton", "payWithCard"},
              delay : 0..MaxDelay]
  /\ doc = [p \in Pages |-> BlankDoc]
  /\ flowState = [s \in Sessions |-> [f \in FlowNames |-> "NotStarted"]]
  /\ inflight = [s \in Sessions |-> {}]
  /\ attempted = [s \in Sessions |-> {}]
  /\ fulfilled = [s \in Sessions |-> {}]
  /\ rejected = [s \in Sessions |-> {}]
  /\ failure = [s \in Sessions |-> NoFailure]
  /\ returned = [s \in Sessions |-> [f \in FlowNames |-> 0]]
  /\ observed = [s \in Sessions |-> {}]
  /\ status = [s \in Sessions |-> "running"]

(* ----------------------- the document's behaviour ---------------------- *)

Min(a, b) == IF a < b THEN a ELSE b

\* the screen the document shows: the new one once it has rendered
Current(d) == IF d.age >= app.delay THEN d.ui ELSE d.from

Url(d) == UrlOf(Current(d))

Navigate(d, ui) == [d EXCEPT !.from = Current(d), !.ui = ui, !.age = 0]

InPage(d, ui) == [d EXCEPT !.from = ui, !.ui = ui]

Tick(d) == [d EXCEPT !.age = Min(d.age + 1, MaxDelay)]

Visible(el) == el.id # app.hidden

\* what a fill or click on element el does to the document
Effect(d, el, st) ==
  CASE el.id = "emailBox" -> [d EXCEPT !.fields.email = st.payload]
    [] el.id = "passwordBox" -> [d EXCEPT !.fields.password = st.payload]
    [] el.id = "loginButton" ->
         IF [email |-> d.fields.email, password |-> d.fields.password]
              \in Accounts
           THEN Navigate(d, "dashboard") ELSE d
    [] el.id = "pickupBox" ->
         InPage([d EXCEPT !.fields.pickup = st.payload],
                IF st.payload = route.pickup THEN "pickupList" ELSE "dashboard")
    [] el.id = "pickupOption" ->
         InPage([d EXCEPT !.fields.pickupSel = el.text], "dashboard")
    [] el.id = "destBox" ->
         InPage([d EXCEPT !.fields.destination = st.payload],
                IF st.payload = route.destination THEN "destList"
                ELSE "dashboard")
    [] el.id = "destOption" ->
         InPage([d EXCEPT !.fields.destinationSel = el.text], "dashboard")
    [] el.id = "calendarIcon" -> InPage(d, "calendar")
    [] el.id = "dayCell" -> InPage([d EXCEPT !.fields.date = el.text], "dashboard")
    [] el.id = "findTripsBtn" ->
         IF d.fields.pickupSel # "" /\ d.fields.destinationSel # ""
            /\ d.fields.date # ""
           THEN Navigate(d, "trips") ELSE d
    [] el.id = "tripRow" -> Navigate(d, "trip")
    [] el.id = "bookTripButton" -> Navigate(d, "payment")
    [] OTHER -> d

Logged(d, s, i, k, target) ==
  [d EXCEPT !.log = Append(@, [by |-> s, flow |-> i, step |-> k,
                               target |-> target])]

(* ------------------------ one call of the library ---------------------- *)

\* the elements on screen that the descriptor matches
Resolve(d, desc) ==
  { el \in Elements(app.dup) : Current(d) \in el.uis /\ Matches(el, desc) }

\* .last() instead of .first()
LastOf(els) == CHOOSE el \in els : \A o \in els : el.ord >= o.ord
FirstOf(els) == CHOOSE el \in els : \A o \in els : el.ord <= o.ord

Outcome(res, kind, reason, target) ==
  [res |-> res, kind |-> kind, reason |-> reason, target |-> target]

WaitOrFail(st, elapsed, kind, reason) ==
  IF elapsed >= st.timeout
    THEN Outcome("fail", kind, reason, "")
    ELSE Outcome("wait", "", "", "")

\* one poll of fill/click: resolve, check actionability, then act
AttemptAction(d, st, elapsed) ==
  LET m == Resolve(d, st.desc) IN
  IF m = {} THEN WaitOrFail(st, elapsed, "ResolutionError", "not found")
  ELSE IF Cardinality(m) > 1 /\ ~st.desc.first
    THEN Outcome("fail", "ResolutionError", "strict mode violation", "")
  ELSE LET el == FirstOf(m) IN
    IF ~Visible(el) /\ ~st.force
      THEN WaitOrFail(st, elapsed, "ActionError", "not visible")
      ELSE Outcome("ok", "", "", el.id)

\* whether the post-condition of a gate holds in the document
GateHolds(d, st) ==
  CASE st.op = "expectURL" -> MatchesDashboard(Url(d))
    [] st.op = "expectVisible" ->
         LET m == Resolve(d, st.desc) IN
           /\ m # {}
           /\ (st.desc.first \/ Cardinality(m) = 1)
           /\ Visible(FirstOf(m))
    [] OTHER -> FALSE

\* one poll of expect(...).toHaveURL / toBeVisible
GateSkipped(d, st, elapsed) == Outcome("ok", "", "", "")
GateNoPolling(d, st, elapsed) ==
  IF GateHolds(d, st) THEN Outcome("ok", "", "", "")
  ELSE Outcome("fail", "GateTimeoutError", "timeout", "")
AttemptGate(d, st, elapsed) ==
  IF GateHolds(d, st) THEN Outcome("ok", "", "", "")
  ELSE WaitOrFail(st, elapsed, "GateTimeoutError", "timeout")

\* one poll of page.goto: fulfilled once the login page has loaded
AttemptGoto(d, st, elapsed) ==
  IF Current(d) = "login" THEN Outcome("ok", "", "", "")
  ELSE WaitOrFail(st, elapsed, "NavigationError", "timeout")

Attempt(d, st, elapsed) ==
  CASE st.op = "goto" -> AttemptGoto(d, st, elapsed)
    [] IsGate(st) -> AttemptGate(d, st, elapsed)
    [] OTHER -> AttemptAction(d, st, elapsed)

(* --------------------------- the test's steps -------------------------- *)

NumStmts(i) == Len(Stmts(Chain[i], user))

StmtOf(s, i, k) == Stmts(Chain[i], creds[s])[k + 1]

ElementById(id) == CHOOSE e \in Elements(app.dup) : e.id = id

\* the test calls each flow once
CallableAgain(s, i) == flowState[s][Chain[i]] \in {"NotStarted", "Failed"}
Callable(s, i) == flowState[s][Chain[i]] = "NotStarted"

\* .then(() => next flow): the callback runs once the flow before resolved
ChainUnchained(s, i) ==
  IF i = 1 THEN TRUE ELSE flowState[s][Chain[i - 1]] # "NotStarted"
ChainReady(s, i) ==
  IF i = 1 THEN TRUE ELSE flowState[s][Chain[i - 1]] = "Completed"

\* await: the flow goes on only once the awaited call has fulfilled
NotAwaited(s, i, k) == TRUE
AwaitedOrCaught(s, i, k) ==
  \/ <<i, k>> \in fulfilled[s]
  \/ \E e \in rejected[s] : e.flow = i /\ e.step = k
Awaited(s, i, k) == <<i, k>> \in fulfilled[s]

Start(s, i, k) ==
  /\ inflight' = [inflight EXCEPT ![s] = @ \cup {[flow |-> i, step |-> k,
                                                   elapsed |-> 0]}]
  /\ attempted' = [attempted EXCEPT ![s] = @ \cup {<<i, k>>}]

\* the test (or a then-callback) calls flow i, which runs to its first await
CallFlow(s) ==
  \E i \in 1..Len(Chain) :
    /\ Callable(s, i)
    /\ ChainReady(s, i)
    /\ flowState' = [flowState EXCEPT ![s][Chain[i]] = "Running"]
    /\ Start(s, i, 0)
    /\ UNCHANGED <<thisPage, creds, app, doc, fulfilled, rejected, failure,
                   returned, observed, status>>

\* the document a poll works on: page.goto first requests the navigation
PollDoc(s, r) ==
  LET st == StmtOf(s, r.flow, r.step) IN
  IF st.op = "goto" /\ r.elapsed = 0
    THEN Logged(Navigate(doc[PageOf(s)], "login"), s, r.flow, r.step, "")
    ELSE doc[PageOf(s)]

\* one poll of a call in flight: it acts, waits one tick, or times out
Poll(s) ==
  \E r \in inflight[s] :
    \E p \in {PageOf(s)}, st \in {StmtOf(s, r.flow, r.step)},
       d1 \in {PollDoc(s, r)} :
    \E a \in {Attempt(d1, st, r.elapsed)} :
      /\ doc' = [doc EXCEPT ![p] =
           IF a.res = "ok" /\ st.op \in {"fill", "click"}
             THEN Logged(Effect(d1, ElementById(a.target), st),
                         s, r.flow, r.step, a.target)
           ELSE IF a.res = "wait" THEN Tick(d1)
           ELSE d1]
      /\ inflight' = [inflight EXCEPT ![s] =
           IF a.res = "wait"
             THEN (@ \ {r}) \cup {[r EXCEPT !.elapsed = @ + 1]}
             ELSE @ \ {r}]
      /\ fulfilled' = [fulfilled EXCEPT ![s] =
           IF a.res = "ok" THEN @ \cup {<<r.flow, r.step>>} ELSE @]
      /\ rejected' = [rejected EXCEPT ![s] =
           IF a.res = "fail"
             THEN @ \cup {[flow |-> r.flow, step |-> r.step,
                           kind |-> a.kind, reason |-> a.reason,
                           at |-> r.elapsed]}
             ELSE @]
      /\ observed' = [observed EXCEPT ![s] =
           IF IsGate(st) /\ GateHolds(d1, st) THEN @ \cup {Chain[r.flow]}
           ELSE @]
      /\ UNCHANGED <<thisPage, creds, app, flowState, attempted, failure,
                     returned, status>>

\* the flow resumes after an await and starts its next statement
Continue(s) ==
  \E i \in 1..Len(Chain), k \in 0..6 :
    /\ flowState[s][Chain[i]] = "Running"
    /\ <<i, k>> \in attempted[s]
    /\ <<i, k + 1>> \notin attempted[s]
    /\ k + 1 < NumStmts(i)
    /\ Awaited(s, i, k)
    /\ Start(s, i, k + 1)
    /\ UNCHANGED <<thisPage, creds, app, doc, flowState, fulfilled, rejected,
                   failure, returned, observed, status>>

\* return this: the flow's promise resolves with the page object
Return(s) ==
  \E i \in 1..Len(Chain) :
    /\ flowState[s][Chain[i]] = "Running"
    /\ <<i, NumStmts(i) - 1>> \in attempted[s]
    /\ Awaited(s, i, NumStmts(i) - 1)
    /\ flowState' = [flowState EXCEPT ![s][Chain[i]] = "Completed"]
    /\ returned' = [returned EXCEPT ![s][Chain[i]] = ReturnValue(s)]
    /\ status' = [status EXCEPT ![s] =
         IF i = Len(Chain) /\ @ = "running" THEN "passed" ELSE @]
    /\ UNCHANGED <<thisPage, creds, app, doc, inflight, attempted, fulfilled,
                   rejected, failure, observed>>

\* the same, but the page is reset when the flow fails
ThrowWithRollback(s) ==
  \E e \in rejected[s] :
    /\ flowState[s][Chain[e.flow]] = "Running"
    /\ flowState' = [flowState EXCEPT ![s][Chain[e.flow]] = "Failed"]
    /\ failure' = [failure EXCEPT ![s] =
         IF @ = NoFailure
           THEN [flow |-> Chain[e.flow], stepIndex |-> e.step,
                 kind |-> e.kind, reason |-> e.reason]
           ELSE @]
    /\ status' = [status EXCEPT ![s] = "failed"]
    /\ doc' = [doc EXCEPT ![PageOf(s)] = BlankDoc]
    /\ UNCHANGED <<thisPage, creds, app, inflight, attempted, fulfilled,
                   rejected, returned, observed>>

\* an awaited call rejected: the flow throws and the chain rejects with it
Throw(s) ==
  \E e \in rejected[s] :
    /\ flowState[s][Chain[e.flow]] = "Running"
    /\ flowState' = [flowState EXCEPT ![s][Chain[e.flow]] = "Failed"]
    /\ failure' = [failure EXCEPT ![s] =
         IF @ = NoFailure
           THEN [flow |-> Chain[e.flow], stepIndex |-> e.step,
                 kind |-> e.kind, reason |-> e.reason]
           ELSE @]
    /\ status' = [status EXCEPT ![s] = "failed"]
    /\ UNCHANGED <<thisPage, creds, app, doc, inflight, attempted, fulfilled,
                   rejected, returned, observed>>

Next ==
  \E s \in Sessions :
    \/ CallFlow(s)
    \/ Poll(s)
    \/ Continue(s)
    \/ Return(s)
    \/ Throw(s)

Spec == Init /\ [][Next]_vars

\* the same tests against an application that keeps one of its buttons hidden
InitHidden ==
  /\ Init
  /\ app.hidden # "none"
  /\ creds = [s \in Sessions |-> user]

\* the event loop runs a pending step whenever there is one
SpecHidden == InitHidden /\ [][Next]_vars /\ WF_vars(Next)

\* page.close(), context.close(): the page's document context is released
Released(d) == [d EXCEPT !.ui = "closed", !.from = "closed"]

\* the runner's timeout signal reaches test s while a call is in flight:
\* the call is aborted and the page is closed
Cancel(s) ==
  /\ inflight[s] # {}
  /\ status[s] = "running"
  /\ rejected' = [rejected EXCEPT ![s] = @ \cup
       { [flow |-> r.flow, step |-> r.step, kind |-> "Cancelled",
          reason |-> "timeout signal", at |-> r.elapsed] : r \in inflight[s] }]
  /\ inflight' = [inflight EXCEPT ![s] = {}]
  /\ doc' = [doc EXCEPT ![PageOf(s)] = Released(@)]
  /\ UNCHANGED <<thisPage, creds, app, flowState, attempted, fulfilled,
                 failure, returned, observed, status>>

NextCancel ==
  \/ Next
  \/ \E s \in Sessions : Cancel(s)

\* the tests against a working application, with the runner's timeout
InitCancel ==
  /\ Init
  /\ ~app.dup
  /\ app.hidden = "none"
  /\ creds[1] = user

\* the event loop is fair; the timeout signal may or may not arrive
SpecCancel == InitCancel /\ [][NextCancel]_vars /\ WF_vars(Next)

\* the same tests where a gate can time out: wrong password, hidden label
InitGate ==
  /\ Init
  /\ ~app.dup
  /\ app.hidden \in {"none", "payWithCard"}
  /\ creds[1] = user

SpecGate == InitGate /\ [][Next]_vars /\ WF_vars(Next)

TypeOK ==
  /\ thisPage \in [Sessions -> Pages]
  /\ \A s \in Sessions : status[s] \in {"running", "passed", "failed"}
  /\ \A p \in Pages : doc[p].ui \in Uis /\ doc[p].age \in 0..MaxDelay

(* ------------------------------ properties ----------------------------- *)

AllStmts == { <<i, k>> : i \in 1..Len(Chain), k \in 0..6 } \cap
            { x \in (1..Len(Chain)) \X (0..6) : x[2] < NumStmts(x[1]) }

Before(a, b) == a[1] < b[1] \/ (a[1] = b[1] /\ a[2] < b[2])

LogHas(p, i, k, target) ==
  \E j \in 1..Len(doc[p].log) :
    /\ doc[p].log[j].flow = i
    /\ doc[p].log[j].step = k
    /\ doc[p].log[j].target = target

\* C1: within one Session the statements of goto, login, searchRoute and
\* bookTrip run strictly one after the other: a statement is started only
\* when every statement before it in the chain has fulfilled, and no
\* statement of searchRoute is started before login's dashboard-URL gate
\* has seen the URL match and login has completed.
C1_StepsSequential ==
  \A s \in Sessions :
    /\ \A a \in attempted[s] : \A b \in AllStmts :
         Before(b, a) => b \in fulfilled[s]
    /\ (\E a \in attempted[s] : a[1] = 3) =>
         /\ "login" \in observed[s]
         /\ <<2, 3>> \in fulfilled[s]
         /\ flowState[s]["login"] = "Completed"

C1_Witness ==
  \E s \in Sessions : \E r \in inflight[s] : r.flow = 3 /\ r.step = 0

\* C2: the first failing statement aborts the rest of its flow and every
\* later flow: nothing after a rejected statement is ever started; when the
\* login click (step index 2) rejects, the cause is an ActionError, the URL
\* gate (step index 3) and searchRoute/bookTrip are never attempted, and
\* the chain fails with flow login, step index 2 and that cause.
C2_FirstFailureAborts ==
  \A s \in Sessions : \A e \in rejected[s] :
    /\ \A a \in attempted[s] : ~Before(<<e.flow, e.step>>, a)
    /\ status[s] # "passed"
    /\ flowState[s][Chain[e.flow]] \in {"Running", "Failed"}
    /\ (e.flow = 2 /\ e.step = 2) =>
         /\ e.kind = "ActionError"
         /\ <<2, 3>> \notin attempted[s]
         /\ flowState[s]["searchRoute"] = "NotStarted"
         /\ flowState[s]["bookTrip"] = "NotStarted"
         /\ failure[s] \in
              { NoFailure,
                [flow |-> "login", stepIndex |-> 2, kind |-> "ActionError",
                 reason |-> e.reason] }
    /\ flowState[s][Chain[e.flow]] = "Failed" =>
         failure[s] = [flow |-> Chain[e.flow], stepIndex |-> e.step,
                       kind |-> e.kind, reason |-> e.reason]

C2_Witness ==
  \E s \in Sessions :
    /\ failure[s].flow = "login"
    /\ failure[s].stepIndex = 2
    /\ flowState[s]["login"] = "Failed"
    /\ doc[thisPage[s]].fields.password # ""

\* C3: a flow with a post-condition does not complete before a poll of its
\* gate has seen the post-condition hold: login not before the page's URL
\* matched the dashboard pattern, bookTrip not before the first 'pay with'
\* label was seen visible, which is after the Book Trip click.
C3_GateBeforeCompletion ==
  \A s \in Sessions :
    /\ flowState[s]["login"] = "Completed" => "login" \in observed[s]
    /\ flowState[s]["bookTrip"] = "Completed" => "bookTrip" \in observed[s]
    /\ "login" \in observed[s] => <<2, 2>> \in fulfilled[s]
    /\ "bookTrip" \in observed[s] =>
         /\ <<4, 1>> \in fulfilled[s]
         /\ LogHas(thisPage[s], 4, 1, "bookTripButton")

C3_Witness ==
  \E s \in Sessions :
    /\ flowState[s]["login"] = "Completed"
    /\ flowState[s]["bookTrip"] = "Completed"
    /\ app.delay > 0

\* C4: every flow that completes resolves with the page object it was
\* called on, and that object's page is still the page it was built with.
C4_ReturnsSameSession ==
  \A s \in Sessions :
    /\ thisPage[s] = Fixture(s)
    /\ \A f \in FlowNames :
         /\ flowState[s][f] = "Completed" => returned[s][f] = s
         /\ flowState[s][f] # "Completed" => returned[s][f] = 0

C4_Witness ==
  \E s \in Sessions :
    status[s] = "passed" /\ \A f \in FlowNames : returned[s][f] = s

\* C5: a flow's lifecycle only moves NotStarted -> Running -> Completed or
\* Running -> Failed; once Completed or Failed its state never changes and
\* none of its statements is in flight, started or applied again.
C5_Lifecycle ==
  [][\A s \in Sessions : \A i \in 1..Len(Chain) :
       LET a == flowState[s][Chain[i]]
           b == flowState'[s][Chain[i]]
       IN /\ \/ a = b
             \/ <<a, b>> \in { <<"NotStarted", "Running">>,
                               <<"Running", "Completed">>,
                               <<"Running", "Failed">> }
          /\ a \in {"Completed", "Failed"} =>
               /\ b = a
               /\ \A r \in inflight[s] \cup inflight'[s] : r.flow # i
               /\ { x \in attempted'[s] : x[1] = i }
                    = { x \in attempted[s] : x[1] = i }
               /\ \A j \in 1..Len(doc'[thisPage[s]].log) :
                    (doc'[thisPage[s]].log[j].by = s
                     /\ doc'[thisPage[s]].log[j].flow = i)
                      => j <= Len(doc[thisPage[s]].log)
    ]_vars

C5_Witness ==
  \E s \in Sessions :
    /\ flowState[s]["goto"] = "Completed"
    /\ flowState[s]["login"] = "Failed"
    /\ \E t \in Sessions : t # s /\ inflight[t] # {}

\* C6: a Session never has more than one call in flight.
C6_OneInFlight ==
  \A s \in Sessions : Cardinality(inflight[s]) <= 1

C6_Witness ==
  \E s \in Sessions : \E r \in inflight[s] :
    r.flow = 3 /\ r.step = 1 /\ <<3, 0>> \in fulfilled[s]

\* C7: two Sessions logging in side by side touch only their own page:
\* every fill and click recorded on a page was made by the test that page
\* was handed to, a page's credential fields hold nothing but that test's
\* credentials, and a gate observation of a test is one of its own page.
C7_SessionsIsolated ==
  /\ \A p \in Pages : \A j \in 1..Len(doc[p].log) :
       Fixture(doc[p].log[j].by) = p
  /\ \A s \in Sessions :
       LET d == doc[Fixture(s)] IN
         /\ d.fields.email \in {"", creds[s].email}
         /\ d.fields.password \in {"", creds[s].password}
         /\ "login" \in observed[s] =>
              /\ MatchesDashboard(UrlOf(d.ui))
              /\ d.fields.email = creds[s].email
              /\ d.fields.password = creds[s].password

C7_Witness ==
  /\ creds[1].email # creds[2].email
  /\ creds[1].password # creds[2].password
  /\ \A s \in Sessions :
       /\ "login" \in observed[s]
       /\ doc[Fixture(s)].fields.email = creds[s].email

\* C8: a descriptor with a test-id that one element carries resolves to
\* that element, whatever else shares its text: on the login screen the
\* login button's descriptor resolves to the login button alone, also when
\* a second element reads "Login"; the login click is never rejected for
\* its locator and always lands on the login button, and the find-trips
\* click always lands on the find-trips button.
C8_TestIdResolves ==
  /\ \A p \in Pages :
       Current(doc[p]) = "login" =>
         Resolve(doc[p], LoginButtonDescriptor) = {ElementById("loginButton")}
  /\ \A s \in Sessions :
       /\ \A e \in rejected[s] :
            (e.flow = 2 /\ e.step = 2) => e.kind # "ResolutionError"
       /\ <<2, 2>> \in fulfilled[s] =>
            LogHas(thisPage[s], 2, 2, "loginButton")
       /\ <<3, 6>> \in fulfilled[s] =>
            LogHas(thisPage[s], 3, 6, "findTripsBtn")

C8_Witness ==
  /\ app.dup
  /\ Cardinality({ el \in Elements(app.dup) : el.text = "Login" }) = 2
  /\ \E s \in Sessions :
       /\ <<2, 2>> \in fulfilled[s]
       /\ LogHas(thisPage[s], 2, 2, "loginButton")

\* C9: a click on an element that stays hidden terminates: no call waits
\* longer than its timeout, nothing is ever applied to the hidden element,
\* the click on the hidden Book Trip button is never fulfilled and is
\* rejected only as ActionError "not visible", and once started it is
\* eventually rejected that way.
C9_HiddenActionTimesOut ==
  /\ [](\A s \in Sessions :
          /\ \A r \in inflight[s] :
               r.elapsed <= StmtOf(s, r.flow, r.step).timeout
          /\ \A j \in 1..Len(doc[thisPage[s]].log) :
               doc[thisPage[s]].log[j].target # app.hidden
          /\ app.hidden = "bookTripButton" =>
               /\ <<4, 1>> \notin fulfilled[s]
               /\ \A e \in rejected[s] :
                    (e.flow = 4 /\ e.step = 1) =>
                      (e.kind = "ActionError" /\ e.reason = "not visible"))
  /\ \A s \in Sessions :
       (app.hidden = "bookTripButton" /\ <<4, 1>> \in attempted[s])
         ~> (\E e \in rejected[s] :
               /\ e.flow = 4
               /\ e.step = 1
               /\ e.reason = "not visible"
               /\ inflight[s] = {})

C9_Witness ==
  \E s \in Sessions :
    /\ app.hidden = "bookTripButton"
    /\ failure[s] = [flow |-> "bookTrip", stepIndex |-> 1,
                     kind |-> "ActionError", reason |-> "not visible"]
    /\ doc[thisPage[s]].ui = "trip"

ReadmeLoginGateTimeoutMs == 10000

\* C11: login's dashboard-URL gate has a timeout of 10000 ms: the gate is
\* never still waiting once more than 10000 ms have gone by since it began,
\* and login never completes on a URL first seen later than that.
C11_LoginGateTenSeconds ==
  \A s \in Sessions : \A r \in inflight[s] :
    (r.flow = 2 /\ r.step = 3) =>
      r.elapsed * TickMs <= ReadmeLoginGateTimeoutMs

\* the element each statement of each flow is declared to act on
DeclaredTargets ==
  << <<"">>,
     <<"emailBox", "passwordBox", "loginButton", "">>,
     <<"pickupBox", "pickupOption", "destBox", "destOption", "calendarIcon",
       "dayCell", "findTripsBtn">>,
     <<"tripRow", "bookTripButton", "">> >>

\* C12: within a flow the (descriptor, action) pairs run in declaration
\* order, each applied before the next begins: what a page records is, in
\* this order, login's email fill, password fill and login click, then
\* searchRoute's pickup fill, pickup choice, destination fill, destination
\* choice, date-picker click, date choice and only then the find-trips
\* click; a statement is started only after the one before it was applied.
C12_DeclarationOrder ==
  \A s \in Sessions :
    LET log == doc[thisPage[s]].log IN
      /\ \A j \in 1..Len(log) :
           /\ log[j].target = DeclaredTargets[log[j].flow][log[j].step + 1]
           /\ \A k \in 1..Len(log) :
                j < k => Before(<<log[j].flow, log[j].step>>,
                                <<log[k].flow, log[k].step>>)
      /\ \A a \in attempted[s] :
           (a[2] > 0 /\ DeclaredTargets[a[1]][a[2]] # "") =>
             LogHas(thisPage[s], a[1], a[2] - 1, DeclaredTargets[a[1]][a[2]])
      /\ LogHas(thisPage[s], 3, 6, "findTripsBtn") =>
           /\ doc[thisPage[s]].fields.pickupSel = route.pickupExact
           /\ doc[thisPage[s]].fields.destinationSel = route.destinationExact
           /\ doc[thisPage[s]].fields.date = route.date

C12_Witness ==
  \E s \in Sessions :
    /\ LogHas(thisPage[s], 3, 6, "findTripsBtn")
    /\ Len(doc[thisPage[s]].log) = 11

\* C13: an action is applied to the document at most once per run and only
\* to an element that met its preconditions (on screen, visible); a call
\* that rejected is never in flight or fulfilled afterwards, a test has at
\* most one rejected call, and a flow that failed is not run again.
C13_NoRetry ==
  \A s \in Sessions :
    LET log == doc[thisPage[s]].log IN
      /\ \A j, k \in 1..Len(log) :
           (log[j].flow = log[k].flow /\ log[j].step = log[k].step) => j = k
      /\ \A j \in 1..Len(log) :
           /\ <<log[j].flow, log[j].step>> \in attempted[s]
           /\ log[j].target # "" =>
                /\ Visible(ElementById(log[j].target))
                /\ <<log[j].flow, log[j].step>> \in fulfilled[s]
      /\ Cardinality(rejected[s]) <= 1
      /\ \A e \in rejected[s] :
           /\ <<e.flow, e.step>> \notin fulfilled[s]
           /\ \A r \in inflight[s] : ~(r.flow = e.flow /\ r.step = e.step)
           /\ \A r \in inflight[s] : r.flow # e.flow
           /\ DeclaredTargets[e.flow][e.step + 1] # "" =>
                ~LogHas(thisPage[s], e.flow, e.step,
                        DeclaredTargets[e.flow][e.step + 1])

C13_Witness ==
  \E s \in Sessions :
    /\ status[s] = "failed"
    /\ failure[s].kind = "ActionError"
    /\ Len(doc[thisPage[s]].log) >= 3
    /\ \E t \in Sessions : t # s /\ inflight[t] # {}

\* the assertion gates: login's toHaveURL and bookTrip's toBeVisible
GateStmts == { <<2, 3>>, <<4, 2>> }

RejectedAt(s, g) == { e \in rejected[s] : e.flow = g[1] /\ e.step = g[2] }

\* C14: every gate wait ends with exactly one outcome: it fulfils at the
\* first poll that sees the condition hold, or it rejects with a
\* GateTimeoutError exactly when its timeout has elapsed without such a
\* poll; it never reports a timeout after the condition was seen, never
\* waits beyond its timeout, and once started it eventually settles.
C14_GateResolves ==
  /\ [](\A s \in Sessions : \A g \in GateStmts :
          /\ ~(g \in fulfilled[s] /\ RejectedAt(s, g) # {})
          /\ g \in fulfilled[s] => Chain[g[1]] \in observed[s]
          /\ \A e \in RejectedAt(s, g) :
               /\ e.kind = "GateTimeoutError"
               /\ e.at = StmtOf(s, g[1], g[2]).timeout
               /\ Chain[g[1]] \notin observed[s]
          /\ \A r \in inflight[s] :
               (r.flow = g[1] /\ r.step = g[2]) =>
                 /\ r.elapsed <= StmtOf(s, g[1], g[2]).timeout
                 /\ Chain[g[1]] \notin observed[s])
  /\ \A s \in Sessions : \A g \in GateStmts :
       (g \in attempted[s])
         ~> (g \in fulfilled[s] \/ RejectedAt(s, g) # {})

C14_Witness ==
  \E s \in Sessions :
    /\ <<2, 3>> \in fulfilled[s]
    /\ RejectedAt(s, <<4, 2>>) # {}
    /\ \E t \in Sessions : RejectedAt(t, <<2, 3>>) # {}

\* the form field a fill statement writes, and the value it writes
FilledFields(s) ==
  { <<2, 0, "email", creds[s].email>>,
    <<2, 1, "password", creds[s].password>>,
    <<3, 0, "pickup", route.pickup>>,
    <<3, 2, "destination", route.destination>> }

\* C15: when a flow fails part-way, what its earlier actions did to the
\* document stays: every field a fulfilled fill wrote still holds the value
\* (email and password stay filled when the login click fails), every
\* applied action is still on the page's record, the step that marks the
\* Session Failed changes nothing in the document, and the document of a
\* Failed Session never changes afterwards.
C15_NoRollback ==
  /\ [](\A s \in Sessions :
          (rejected[s] # {}) =>
            /\ \A f \in FilledFields(s) :
                 <<f[1], f[2]>> \in fulfilled[s] =>
                   doc[thisPage[s]].fields[f[3]] = f[4]
            /\ \A a \in fulfilled[s] :
                 DeclaredTargets[a[1]][a[2] + 1] # "" =>
                   LogHas(thisPage[s], a[1], a[2],
                          DeclaredTargets[a[1]][a[2] + 1])
            /\ failure[s] # NoFailure => status[s] = "failed")
  /\ [][\A s \in Sessions :
          (status'[s] = "failed" \/ rejected[s] # {}) =>
            doc'[thisPage[s]] = doc[thisPage[s]]]_vars

C15_Witness ==
  \E s \in Sessions :
    /\ status[s] = "failed"
    /\ failure[s].flow = "login"
    /\ failure[s].stepIndex = 2
    /\ doc[thisPage[s]].fields.email = creds[s].email
    /\ doc[thisPage[s]].fields.password = creds[s].password
    /\ Len(doc[thisPage[s]].log) = 3

CancelledCalls(s) == { e \in rejected[s] : e.kind = "Cancelled" }

\* C16: a timeout signal that arrives during an in-flight wait (of a fill
\* or click, or of a gate) aborts it: from then on the Session has no call
\* in flight, its page is released, it starts no further statement and
\* applies nothing more, it never passes, and it eventually is Failed.
C16_CancelAborts ==
  /\ [](\A s \in Sessions :
          CancelledCalls(s) # {} =>
            /\ inflight[s] = {}
            /\ doc[thisPage[s]].ui = "closed"
            /\ status[s] # "passed"
            /\ \A e \in CancelledCalls(s) :
                 /\ <<e.flow, e.step>> \notin fulfilled[s]
                 /\ \A a \in attempted[s] : ~Before(<<e.flow, e.step>>, a))
  /\ [][\A s \in Sessions :
          CancelledCalls(s) # {} =>
            /\ attempted'[s] = attempted[s]
            /\ doc'[thisPage[s]] = doc[thisPage[s]]]_vars
  /\ \A s \in Sessions :
       (CancelledCalls(s) # {})
         ~> (/\ status[s] = "failed"
             /\ failure[s].kind = "Cancelled"
             /\ flowState[s][failure[s].flow] = "Failed")

C16_Witness ==
  \E s \in Sessions :
    /\ status[s] = "failed"
    /\ failure[s] = [flow |-> "login", stepIndex |-> 3, kind |-> "Cancelled",
                     reason |-> "timeout signal"]
    /\ doc[thisPage[s]].ui = "closed"
    /\ \E e \in CancelledCalls(s) : e.at > 0
    /\ \E t \in Sessions : \E e \in CancelledCalls(t) : e.flow = 3

====
